---- MODULE Spec2Model ----
(***************************************************************************)
(* BloomDash: checkpoint-driven incremental ingestion.                     *)
(*                                                                         *)
(*   src/data/storage/db.py       the SQLite checkpoint store: three       *)
(*                                tables (last_dates, feature_last_dates,  *)
(*                                last_dates_fred) with init/get/upsert    *)
(*   src/data/sources/yfinance.py download_one, normalize_yf and main(),   *)
(*                                the prices ingestion cycle               *)
(*   data/storage/parquet.py      append_prices_dataset: not in src/, its  *)
(*                                contract is taken from spec.md 4.3       *)
(*                                                                         *)
(* Dates are the strings "YYYY-MM-DD" of the code, modelled as the tuples  *)
(* <<y, m, d>> and compared component by component, which is the order of  *)
(* the zero-padded strings that SQLite's MAX and pandas' sort_values use.  *)
(* A datetime is <<y, m, d, h>>.  None is the date <<0, 0, 0>>.            *)
(***************************************************************************)
EXTENDS Integers, Sequences, FiniteSets, TLC

\* ---------------------------------------------------------------- bounds
\* Number of consecutive calendar days of the model, starting at BaseDate.
MaxDays == 2
\* Hourly bars the provider publishes per day (download_one: interval="1h").
HoursPerDay == 2
\* Runs of main() in one behaviour.
MaxCycles == 2
\* Rows of a table handed directly to an upsert of the store.
MaxRows == 2
\* Direct upsert calls in one behaviour of the store specification.
MaxUpserts == 2

\* ------------------------------------------------------------- constants
\* yfinance.py:154  timedelta(days=30)
LookbackDays == 30

\* The first day of the model: the window crosses a month and a year end.
BaseDate == <<2023, 12, 31>>

\* yfinance.py:34-55  the static ticker list (its first two entries).
YF_TICKERS == <<"AAPL", "MSFT">>

Tickers == {YF_TICKERS[i] : i \in 1..Len(YF_TICKERS)}

\* Feature families and macro zones used as keys of the other two tables.
Features == {"regime"}

Zones == {"FR", "US"}

None == <<0, 0, 0>>

\* -------------------------------------------------------------- calendar
IsLeap(y) == (y % 4 = 0 /\ y % 100 # 0) \/ y % 400 = 0

DaysInMonth(y, m) ==
  IF m = 2 THEN (IF IsLeap(y) THEN 29 ELSE 28)
  ELSE IF m \in {4, 6, 9, 11} THEN 30 ELSE 31

NextDay(d) ==
  IF d[3] < DaysInMonth(d[1], d[2]) THEN <<d[1], d[2], d[3] + 1>>
  ELSE IF d[2] < 12 THEN <<d[1], d[2] + 1, 1>>
  ELSE <<d[1] + 1, 1, 1>>

PrevDay(d) ==
  IF d[3] > 1 THEN <<d[1], d[2], d[3] - 1>>
  ELSE IF d[2] > 1 THEN <<d[1], d[2] - 1, DaysInMonth(d[1], d[2] - 1)>>
  ELSE <<d[1] - 1, 12, 31>>

RECURSIVE AddDays(_, _)
\* datetime + timedelta(days=n) on the date part.
AddDays(d, n) ==
  IF n = 0 THEN d
  ELSE IF n > 0 THEN AddDays(NextDay(d), n - 1)
  ELSE AddDays(PrevDay(d), n + 1)

\* dt.strftime("%Y-%m-%d"): the time of day is dropped.
strftime(dt) == <<dt[1], dt[2], dt[3]>>

\* datetime.strptime(s, "%Y-%m-%d"): midnight of that day.
strptime(s) == <<s[1], s[2], s[3], 0>>

\* String order of two "YYYY-MM-DD" values (None sorts before every date).
DateLT(a, b) ==
  \/ a[1] < b[1]
  \/ a[1] = b[1] /\ a[2] < b[2]
  \/ a[1] = b[1] /\ a[2] = b[2] /\ a[3] < b[3]

DateLE(a, b) == a = b \/ DateLT(a, b)

\* SQL MAX(date) over a set of date strings; NULL (None) over no row.
MaxDate(S) ==
  IF S = {} THEN None
  ELSE CHOOSE d \in S : \A e \in S : DateLE(e, d)

\* The model's days, as date strings, in calendar order.
Days == [i \in 1..MaxDays |-> AddDays(BaseDate, i - 1)]

Dates == {Days[i] : i \in 1..MaxDays}

\* ----------------------------------------------------------------- cells
\* A cell of a table: a number, a missing value (NaN/None), or a string
\* that is not a number.  A number is v, or v + 1/2 when half is set.
Num(n) == [k |-> "num", v |-> n, half |-> FALSE]

Half(n) == [k |-> "num", v |-> n, half |-> TRUE]

NaN == [k |-> "nan", v |-> 0, half |-> FALSE]

Str(i) == [k |-> "str", v |-> i, half |-> FALSE]

\* pd.notna
notna(c) == c.k # "nan"

\* pd.to_numeric(c, errors="ignore"): what is not a number is left as is.
to_numeric_ignore(c) == c

\* pd.to_numeric(c, errors="coerce")
to_numeric(c) == IF c.k = "num" THEN c ELSE NaN

\* fillna0 left out: a missing value stays missing.
fillna_skip(c) == c

\* Series.fillna(0)
fillna0(c) == IF c.k = "nan" THEN Num(0) ELSE c

\* ---------------------------------------------------------------- frames
\* A canonical table (pandas DataFrame): its column names and its rows, each
\* row a record; isnone marks the Python value None passed for a table.
Frame(columns, rows) == [isnone |-> FALSE, columns |-> columns, rows |-> rows]

Range(s) == {s[i] : i \in 1..Len(s)}

\* DataFrame.empty: no row or no column.
empty(df) == Len(df.rows) = 0 \/ Len(df.columns) = 0

\* A raw provider table (yf.download): columns are <<field, instrument>>
\* (instrument "" when the columns are not a MultiIndex), index holds the
\* bar timestamps, data[r][c] the cell of row r in column c.
NaT == <<0, 0, 0, 0>>

RawFrame(multi, columns, index, data) ==
  [isnone |-> FALSE, multi |-> multi, columns |-> columns, index |-> index,
   data |-> data]

RawNone ==
  [isnone |-> TRUE, multi |-> FALSE, columns |-> <<>>, index |-> <<>>,
   data |-> <<>>]

RawEmpty(df) == Len(df.index) = 0 \/ Len(df.columns) = 0

\* Position-preserving filter of a sequence of positions.
RECURSIVE SelectPos(_, _)
SelectPos(flags, i) ==
  IF i > Len(flags) THEN <<>>
  ELSE (IF flags[i] THEN <<i>> ELSE <<>>) \o SelectPos(flags, i + 1)

\* -------------------------------------------------------------- normalize
\* yfinance.py:84
cols ==
  <<"ticker", "date", "year", "open", "high", "low", "close", "adj_close",
    "volume">>

\* yfinance.py:117
required == {"date", "open", "high", "low", "close", "adj_close", "volume"}

\* yfinance.py:106-109  _norm on the column spellings the model uses:
\* strip, "Adj Close" -> "Adj_Close", lower-case, blanks -> "_".
NormTable ==
  ("Open" :> "open") @@ ("High" :> "high") @@ ("Low" :> "low") @@
  ("Close" :> "close") @@ ("Adj Close" :> "adj_close") @@
  ("Volume" :> "volume") @@ ("adj close" :> "adj_close") @@
  (" close " :> "close") @@ ("OPEN" :> "open") @@
  ("AdjClose" :> "adjclose") @@ ("adjclose" :> "adjclose") @@
  ("Date" :> "date") @@ ("date" :> "date") @@ ("Dividends" :> "dividends")

_norm(c) == NormTable[c]

\* SelectedPositions taking the slice of the first instrument of the table
\* (df.xs(lvl_last[0], ...)) instead of the slice of `ticker`.
SelectFirstInstrument(df, ticker) ==
  IF df.multi /\ ticker \in {df.columns[i][2] : i \in 1..Len(df.columns)}
  THEN SelectPos([i \in 1..Len(df.columns) |->
                    df.columns[i][2] = df.columns[1][2]], 1)
  ELSE [i \in 1..Len(df.columns) |-> i]

\* yfinance.py:90-98  the columns kept and their one-level names.
SelectedPositions(df, ticker) ==
  IF df.multi /\ ticker \in {df.columns[i][2] : i \in 1..Len(df.columns)}
  THEN SelectPos([i \in 1..Len(df.columns) |-> df.columns[i][2] = ticker], 1)
  ELSE [i \in 1..Len(df.columns) |-> i]

\* yfinance.py:111-115  normalized names of the kept columns.
NormalizedNames(df, pos) ==
  LET names0 == [i \in 1..Len(pos) |-> _norm(df.columns[pos[i]][1])]
  IN IF "adjclose" \in Range(names0) /\ "adj_close" \notin Range(names0)
     THEN [i \in 1..Len(pos) |->
             IF names0[i] = "adjclose" THEN "adj_close" ELSE names0[i]]
     ELSE names0

\* yfinance.py:139  astype("int64") of a cell: the fraction of a number is
\* cut off, toward zero; a missing value has no integer (the cast raises).
astype_int64(c) ==
  IF c.k = "num" THEN Num(IF c.half /\ c.v < 0 THEN c.v + 1 ELSE c.v) ELSE c

\* ParsedRows keeping every row, parsed or not.
AllRows(df) == [r \in 1..Len(df.index) |-> r]

\* yfinance.py:122-125  the positions of the rows whose date parses
\* (pd.to_datetime(errors="coerce") is not NaT), in their order.
ParsedRows(df) ==
  SelectPos([r \in 1..Len(df.index) |-> df.index[r] # NaT], 1)

\* Shortfall as `return pd.DataFrame()`: a table without columns.
ShortfallNoColumns == [raised |-> FALSE, frame |-> Frame(<<>>, <<>>)]

\* Shortfall as `raise KeyError(...)` for the missing fields.
ShortfallRaises == [raised |-> TRUE, frame |-> Frame(cols, <<>>)]

\* yfinance.py:118-119  what normalize_yf does when a required field is
\* absent: return pd.DataFrame(columns=cols).
Shortfall == [raised |-> FALSE, frame |-> Frame(cols, <<>>)]

\* yfinance.py:73-141  normalize_yf.  raised: the call ends in an exception
\* (reset_index cannot insert "date"; a duplicated column makes out[c] a
\* table, which to_datetime / to_numeric reject; a volume still missing
\* at the cast to int64).
normalize_yf(df, ticker) ==
  IF df.isnone \/ RawEmpty(df)
  THEN [raised |-> FALSE, frame |-> Frame(cols, <<>>)]
  ELSE
    LET pos == SelectedPositions(df, ticker)
        names == NormalizedNames(df, pos)
        count(c) == Cardinality({i \in 1..Len(pos) : names[i] = c})
        first(c) == pos[CHOOSE i \in 1..Len(pos) :
                      names[i] = c /\ \A j \in 1..(i - 1) : names[j] # c]
        okrows == ParsedRows(df)
        row(r) ==
          [ticker |-> ticker,
           date |-> strftime(df.index[r]),
           year |-> df.index[r][1],
           open |-> to_numeric(df.data[r][first("open")]),
           high |-> to_numeric(df.data[r][first("high")]),
           low |-> to_numeric(df.data[r][first("low")]),
           close |-> to_numeric(df.data[r][first("close")]),
           adj_close |-> to_numeric(df.data[r][first("adj_close")]),
           volume |->
             astype_int64(fillna0(to_numeric(df.data[r][first("volume")])))]
    IN IF \E i \in 1..Len(pos) : df.columns[pos[i]][1] = "date"
       THEN [raised |-> TRUE, frame |-> Frame(cols, <<>>)]
       ELSE IF ~ (required \subseteq (Range(names) \cup {"date"}))
       THEN Shortfall
       ELSE IF count("date") > 0
               \/ \E c \in {"open", "high", "low", "close", "adj_close"} :
                    count(c) > 1
               \/ \E k \in 1..Len(okrows) : row(okrows[k]).volume.k # "num"
       THEN [raised |-> TRUE, frame |-> Frame(cols, <<>>)]
       ELSE [raised |-> FALSE,
             frame |-> Frame(cols, [k \in 1..Len(okrows) |-> row(okrows[k])])]

\* ------------------------------------------------------------------ state
VARIABLES
  tables,              \* names of the tables that exist in data/_meta.db
  indexes,             \* names of the indexes that exist
  last_dates,          \* rows of table last_dates
  feature_last_dates,  \* rows of table feature_last_dates
  last_dates_fred,     \* rows of table last_dates_fred
  ret,                 \* the last store call made directly: what it returned
  nups                 \* number of direct upsert calls made so far

storeVars ==
  <<tables, indexes, last_dates, feature_last_dates, last_dates_fred>>

\* -------------------------------------------------------- checkpoint store
\* db.py:24-34, 124-129, 256-264  the columns of the three tables.
TableColumns ==
  [last_dates |->
     {"ticker", "date", "open", "high", "low", "close", "adj_close", "volume"},
   feature_last_dates |-> {"feature", "ticker", "date"},
   last_dates_fred |-> {"zone", "date", "cpi", "gdp", "policy", "unemp"}]

\* CREATE TABLE IF NOT EXISTS
CreateTable(db, name) == [db EXCEPT !.tables = @ \cup {name}]

\* CREATE INDEX IF NOT EXISTS name ON table(column): nothing when the index
\* exists, an OperationalError when the table or the column does not.
CreateIndex(db, name, table, column) ==
  IF db.raised \/ name \in db.indexes THEN db
  ELSE IF table \notin db.tables \/ column \notin TableColumns[table]
  THEN [db EXCEPT !.raised = TRUE]
  ELSE [db EXCEPT !.indexes = @ \cup {name}]

Schema == [tables |-> tables, indexes |-> indexes, raised |-> FALSE]

\* db.py:9-39
init_prices_last_dates_db(db) ==
  CreateIndex(
    CreateIndex(CreateTable(db, "last_dates"),
                "idx_last_dates_ticker", "last_dates", "ticker"),
    "idx_last_dates_date", "last_dates", "date")

\* db.py:114-141
init_feature_last_dates_db(db) ==
  CreateIndex(
    CreateIndex(
      CreateIndex(CreateTable(db, "feature_last_dates"),
                  "idx_feature_last_dates_feature", "feature_last_dates",
                  "feature"),
      "idx_feature_last_dates_ticker", "feature_last_dates", "ticker"),
    "idx_feature_last_dates_date", "feature_last_dates", "date")

\* db.py:241-269  both indexes are created ON last_dates.
init_fred_last_dates_db(db) ==
  CreateIndex(
    CreateIndex(CreateTable(db, "last_dates_fred"),
                "idx_last_dates_zone", "last_dates", "zone"),
    "idx_last_dates_date", "last_dates", "date")

\* get_last_price_date without the WHERE clause: MAX(date) of the table.
get_last_date_any(tbl, ticker) == MaxDate({r.date : r \in tbl})

\* get_last_price_date as SELECT MIN(date): the earliest record.
get_first_price_date(tbl, ticker) ==
  LET ds == {r.date : r \in {x \in tbl : x.ticker = ticker}}
  IN IF ds = {} THEN None ELSE CHOOSE d \in ds : \A e \in ds : DateLE(d, e)

\* db.py:57-61  SELECT MAX(date) FROM last_dates WHERE ticker = ?
get_last_price_date(tbl, ticker) ==
  MaxDate({r.date : r \in {x \in tbl : x.ticker = ticker}})

\* df_last without the sort: df.tail(1).
df_tail(df) == {df.rows[Len(df.rows)]}

\* db.py:83  df.sort_values("date").tail(1): a row holding the greatest
\* date (a missing date sorts last); which of several such rows comes last
\* is left to the sort.
df_last(df) ==
  LET idx == 1..Len(df.rows)
      nulls == {i \in idx : df.rows[i].date = None}
  IN IF nulls # {} THEN {df.rows[i] : i \in nulls}
     ELSE {df.rows[i] : i \in {j \in idx :
             \A k \in idx : DateLE(df.rows[k].date, df.rows[j].date)}}

\* db.py:98-107  float(x) / int(x) if pd.notna(x) else None.
ValueFields == {"open", "high", "low", "close", "adj_close", "volume"}

PriceRecord(row) ==
  [ticker |-> row.ticker, date |-> row.date, open |-> row.open,
   high |-> row.high, low |-> row.low, close |-> row.close,
   adj_close |-> row.adj_close,
   volume |-> IF notna(row.volume) THEN astype_int64(row.volume) ELSE NaN]

\* OnConflictPrice with SET x = COALESCE(excluded.x, x): a NULL of the new
\* row keeps the stored value.
OnConflictCoalesce(tbl, rec) ==
  LET olds == {x \in tbl : x.ticker = rec.ticker /\ x.date = rec.date}
      keep(f) == IF olds # {} /\ ~ notna(rec[f])
                 THEN (CHOOSE x \in olds : TRUE)[f] ELSE rec[f]
  IN (tbl \ olds) \cup
       {[ticker |-> rec.ticker, date |-> rec.date, open |-> keep("open"),
         high |-> keep("high"), low |-> keep("low"), close |-> keep("close"),
         adj_close |-> keep("adj_close"), volume |-> keep("volume")]}

\* OnConflictPrice with the conflict target (date): one row per date,
\* whatever the ticker.
OnConflictDate(tbl, rec) == {x \in tbl : x.date # rec.date} \cup {rec}

\* OnConflictPrice as a plain INSERT into a table without its primary key.
InsertPrice(tbl, rec) == tbl \cup {rec}

\* OnConflictPrice with the conflict target (ticker): one row per ticker.
OnConflictTicker(tbl, rec) == {x \in tbl : x.ticker # rec.ticker} \cup {rec}

\* OnConflictPrice as df_last.to_sql(if_exists="replace"): the table is
\* rewritten with the one row.
ReplaceTable(tbl, rec) == {rec}

\* db.py:86-96  INSERT ... ON CONFLICT(ticker, date) DO UPDATE SET every
\* value column = excluded.
OnConflictPrice(tbl, rec) ==
  {x \in tbl : ~ (x.ticker = rec.ticker /\ x.date = rec.date)} \cup {rec}

\* upsert_price_last_dates whose guard is only `df is None`: an empty table
\* reaches df_last.iloc[0], an IndexError.
upsert_price_none_only(tbls, tbl, df, row) ==
  IF df.isnone
  THEN [tbl |-> tbl, value |-> None, raised |-> FALSE]
  ELSE IF \/ empty(df)
          \/ \E f \in ValueFields : row[f].k = "str"
          \/ "last_dates" \notin tbls
          \/ row.date = None
  THEN [tbl |-> tbl, value |-> None, raised |-> TRUE]
  ELSE [tbl |-> OnConflictPrice(tbl, PriceRecord(row)), value |-> row.date,
        raised |-> FALSE]

\* db.py:64-111  upsert_price_last_dates with the tail row `row` (unused
\* when the table is empty): the table afterwards, the value returned and
\* whether the call raised (no table, a NULL date, a value float() rejects).
upsert_price_last_dates(tbls, tbl, df, row) ==
  IF df.isnone \/ empty(df)
  THEN [tbl |-> tbl, value |-> None, raised |-> FALSE]
  ELSE IF \/ \E f \in ValueFields : row[f].k = "str"
          \/ "last_dates" \notin tbls
          \/ row.date = None
  THEN [tbl |-> tbl, value |-> None, raised |-> TRUE]
  ELSE [tbl |-> OnConflictPrice(tbl, PriceRecord(row)), value |-> row.date,
        raised |-> FALSE]

\* db.py:161-165  SELECT date ... WHERE feature = ? AND ticker = ?; fetchone.
get_last_feature_date(tbl, feature, ticker) ==
  LET hits == {x \in tbl : x.feature = feature /\ x.ticker = ticker}
  IN IF hits = {} THEN None ELSE (CHOOSE x \in hits : TRUE).date

\* db.py:183-187  {ticker: date for ticker, date in rows}, as pairs.
get_all_last_feature_dates(tbl, feature) ==
  {<<x.ticker, x.date>> : x \in {y \in tbl : y.feature = feature}}

\* OnConflictFeature with SET date = MAX(date, excluded.date): a stored
\* later date is kept.
OnConflictFeatureMax(tbl, rec) ==
  LET olds == {x \in tbl : x.feature = rec.feature /\ x.ticker = rec.ticker}
  IN (tbl \ olds) \cup
       {[rec EXCEPT !.date = MaxDate({rec.date} \cup {x.date : x \in olds})]}

\* db.py:229-234  INSERT ... ON CONFLICT(feature, ticker) DO UPDATE SET date.
OnConflictFeature(tbl, rec) ==
  {x \in tbl : ~ (x.feature = rec.feature /\ x.ticker = rec.ticker)}
    \cup {rec}

\* db.py:223-228  to_datetime(errors="coerce"), keep the parsed rows,
\* strftime, then the greatest date of each ticker.
last_by_ticker(df) ==
  LET ok == {i \in 1..Len(df.rows) : df.rows[i].date # NaT}
      tk == {df.rows[i].ticker : i \in ok}
  IN {<<t, MaxDate({strftime(df.rows[i].date) :
                      i \in {j \in ok : df.rows[j].ticker = t}})>> : t \in tk}

RECURSIVE UpsertEach(_, _, _)
\* db.py:235-236  one execute per ticker of last_by_ticker.
UpsertEach(tbl, feature, pairs) ==
  IF pairs = {} THEN tbl
  ELSE LET p == CHOOSE q \in pairs : TRUE
       IN UpsertEach(
            OnConflictFeature(
              tbl, [feature |-> feature, ticker |-> p[1], date |-> p[2]]),
            feature, pairs \ {p})

\* upsert_feature_last_dates whose KeyError names the two required columns
\* instead of the missing ones.
upsert_feature_names_required(tbls, tbl, feature, df) ==
  IF df.isnone \/ empty(df)
  THEN [tbl |-> tbl, raised |-> FALSE, missing |-> {}]
  ELSE IF "ticker" \notin Range(df.columns) \/ "date" \notin Range(df.columns)
  THEN [tbl |-> tbl, raised |-> TRUE, missing |-> {"ticker", "date"}]
  ELSE IF last_by_ticker(df) # {} /\ "feature_last_dates" \notin tbls
  THEN [tbl |-> tbl, raised |-> TRUE, missing |-> {}]
  ELSE [tbl |-> UpsertEach(tbl, feature, last_by_ticker(df)),
        raised |-> FALSE, missing |-> {}]

\* db.py:190-237  upsert_feature_last_dates(conn, feature, df) with the
\* default ticker_col and date_col; missing: the columns the KeyError names.
upsert_feature_last_dates(tbls, tbl, feature, df) ==
  IF df.isnone \/ empty(df)
  THEN [tbl |-> tbl, raised |-> FALSE, missing |-> {}]
  ELSE IF "ticker" \notin Range(df.columns) \/ "date" \notin Range(df.columns)
  THEN [tbl |-> tbl, raised |-> TRUE,
        missing |-> {"ticker", "date"} \ Range(df.columns)]
  ELSE IF last_by_ticker(df) # {} /\ "feature_last_dates" \notin tbls
  THEN [tbl |-> tbl, raised |-> TRUE, missing |-> {}]
  ELSE [tbl |-> UpsertEach(tbl, feature, last_by_ticker(df)),
        raised |-> FALSE, missing |-> {}]

\* db.py:287-291  SELECT MAX(date) FROM last_dates_fred WHERE zone = ?
get_last_fred_date(tbl, zone) ==
  MaxDate({r.date : r \in {x \in tbl : x.zone = zone}})

\* db.py:317  the columns named by the INSERT of upsert_fred_last_dates.
FredInsertColumns == 6

\* db.py:318  the "?" placeholders of its VALUES list.
FredInsertValues == 8

FredFields == {"cpi", "gdp", "policy", "unemp"}

\* db.py:316-324  INSERT ... ON CONFLICT(zone, date) DO UPDATE.
OnConflictFred(tbl, rec) ==
  {x \in tbl : ~ (x.zone = rec.zone /\ x.date = rec.date)} \cup {rec}

\* db.py:294-337  upsert_fred_last_dates with the tail row `row`.  SQLite
\* rejects a statement whose VALUES list does not match its column list.
upsert_fred_last_dates(tbls, tbl, df, row) ==
  IF df.isnone \/ empty(df)
  THEN [tbl |-> tbl, value |-> None, raised |-> FALSE]
  ELSE IF \/ \E f \in FredFields : row[f].k = "str"
          \/ "last_dates_fred" \notin tbls
          \/ FredInsertValues # FredInsertColumns
          \/ row.date = None
  THEN [tbl |-> tbl, value |-> None, raised |-> TRUE]
  ELSE [tbl |-> OnConflictFred(tbl, row), value |-> row.date,
        raised |-> FALSE]

\* ----------------------------------------------------- ingestion: state
VARIABLES
  today,     \* index in Days of the current day (datetime.now())
  provider,  \* provider[t]: the days (indexes in Days) with published bars
  dataset,   \* rows of the parquet prices dataset
  pc,        \* where main() is: idle, read, fetch, upsert, append, done, raised
  exc,       \* the exception that ended main(), "" when none
  at,        \* the value of pc when that exception was raised
  cycle,     \* runs of main() started so far
  i,         \* index in YF_TICKERS of the ticker being processed
  last,      \* main's local `last`
  start,     \* main's local `start`
  df2,       \* main's local `df2`
  new_last,  \* main's local `new_last`
  total,     \* main's local `total`
  written,   \* written[t]: `inserted` printed for t in this run, -1 before
  cpStart,   \* get_last_price_date of every ticker when this run started
  rowsStart, \* number of dataset rows when this run started
  repeat,    \* this run follows a completed run with unchanged provider data
  dirty,     \* the provider published, or answered with a table lacking a
             \* required field, since the current run started
  df1,       \* main's local `df`: the raw table download_one returned
  other      \* a second run of main() in another process: its position
             \* and its locals

cycleVars ==
  <<today, provider, dataset, pc, exc, at, cycle, i, last, start, df2,
    new_last, total, written, cpStart, rowsStart, repeat, dirty, df1, other>>

\* The second process before it starts.
NoOther ==
  [pc |-> "idle", i |-> 1, last |-> None, start |-> None,
   df2 |-> Frame(cols, <<>>), new_last |-> None]

vars == <<storeVars, ret, nups, cycleVars>>

NoneFrame == [isnone |-> TRUE, columns |-> <<>>, rows |-> <<>>]

NoRet ==
  [op |-> "", key |-> "", value |-> None, raised |-> FALSE, indates |-> {},
   first |-> None, before |-> None, missing |-> {}, all |-> {},
   feature |-> "", incols |-> {}, inrows |-> 0, inset |-> {}, old |-> {}]

\* The number of rows of a table handed to a call, -1 for None.
InRows(df) == IF df.isnone THEN 0 - 1 ELSE Len(df.rows)

\* The checkpoint of every ticker, as get_last_price_date reads it.
Checkpoints(tbl) == [t \in Tickers |-> get_last_price_date(tbl, t)]

\* ------------------------------------------------- direct calls: inputs
\* The value columns of a price row: complete, or with missing values.
Snapshot(v) ==
  IF v = 1
  THEN [open |-> Num(1), high |-> Num(1), low |-> Num(1), close |-> Num(1),
        adj_close |-> Num(1), volume |-> Num(1)]
  ELSE [open |-> Num(2), high |-> Num(2), low |-> NaN, close |-> Num(2),
        adj_close |-> NaN, volume |-> NaN]

PriceRow(t, d, v) ==
  [ticker |-> t, date |-> d, year |-> d[1], open |-> Snapshot(v).open,
   high |-> Snapshot(v).high, low |-> Snapshot(v).low,
   close |-> Snapshot(v).close, adj_close |-> Snapshot(v).adj_close,
   volume |-> Snapshot(v).volume]

\* The dates of the rows handed to the store directly.
DirectDates == {Days[1], Days[2]}

\* Tables of at most m price rows of one ticker, in any order of dates,
\* None included.
PriceFrames(m) ==
  {NoneFrame} \cup
  {Frame(cols, [k \in 1..n |-> PriceRow(t, ds[k], ((k + v) % 2) + 1)]) :
     <<t, v, n, ds>> \in
       UNION {{<<t, v, n, ds>> : ds \in [1..n -> DirectDates]} :
                <<t, v, n>> \in Tickers \X {0, 1} \X (0..m)}}

\* A parseable date value of a feature table (a timestamp) or NaT.
FeatureDates == {<<d[1], d[2], d[3], 9>> : d \in DirectDates} \cup {NaT}

FeatureColumns ==
  {<<"ticker", "date">>, <<"ticker">>, <<"date">>, <<"value">>, <<>>}

\* Tables of at most m feature rows with the columns cs, None included.
FeatureFramesOf(cs, m) ==
  {NoneFrame} \cup
  {Frame(c, rs) :
     <<c, rs>> \in
       cs \X UNION {[1..n -> [ticker : Tickers, date : FeatureDates]] :
                      n \in 0..m}}

FeatureFrames(m) == FeatureFramesOf(FeatureColumns, m)

FredRow(z, d) ==
  [zone |-> z, date |-> d, cpi |-> Num(1), gdp |-> Num(1), policy |-> NaN,
   unemp |-> Num(1)]

FredFrames(m) ==
  {NoneFrame} \cup
  {Frame(<<"zone", "date", "cpi", "gdp", "policy", "unemp">>,
         [k \in 1..n |-> FredRow(z, ds[k])]) :
     <<z, n, ds>> \in
       UNION {{<<z, n, ds>> : ds \in [1..n -> DirectDates]} :
                <<z, n>> \in Zones \X (0..m)}}

InDates(df) == {df.rows[k].date : k \in 1..Len(df.rows)}

\* The date of the first row of a table, None for an empty one.
FirstDate(df) == IF Len(df.rows) = 0 THEN None ELSE df.rows[1].date

\* The key (ticker or zone) of a one-key table, "" for an empty one.
KeyOf(df, col) == IF Len(df.rows) = 0 THEN "" ELSE df.rows[1][col]

\* ------------------------------------------------ direct calls: actions
InitPricesDb ==
  LET db == init_prices_last_dates_db(Schema)
  IN /\ tables' = db.tables
     /\ indexes' = db.indexes
     /\ ret' = [NoRet EXCEPT !.op = "init_prices_last_dates_db",
                             !.raised = db.raised]
     /\ UNCHANGED <<last_dates, feature_last_dates, last_dates_fred, nups,
                    cycleVars>>

InitFeatureDb ==
  LET db == init_feature_last_dates_db(Schema)
  IN /\ tables' = db.tables
     /\ indexes' = db.indexes
     /\ ret' = [NoRet EXCEPT !.op = "init_feature_last_dates_db",
                             !.raised = db.raised]
     /\ UNCHANGED <<last_dates, feature_last_dates, last_dates_fred, nups,
                    cycleVars>>

InitFredDb ==
  LET db == init_fred_last_dates_db(Schema)
  IN /\ tables' = db.tables
     /\ indexes' = db.indexes
     /\ ret' = [NoRet EXCEPT !.op = "init_fred_last_dates_db",
                             !.raised = db.raised]
     /\ UNCHANGED <<last_dates, feature_last_dates, last_dates_fred, nups,
                    cycleVars>>

GetLastPriceDate(t) ==
  /\ ret' = [NoRet EXCEPT !.op = "get_last_price_date", !.key = t,
                          !.raised = "last_dates" \notin tables,
                          !.value = IF "last_dates" \in tables
                                    THEN get_last_price_date(last_dates, t)
                                    ELSE None]
  /\ UNCHANGED <<storeVars, nups, cycleVars>>

UpsertPriceLastDates(df) ==
  /\ nups < MaxUpserts
  /\ \E row \in (IF df.isnone \/ empty(df) THEN {PriceRow("", None, 1)}
                 ELSE df_last(df)) :
       LET r == upsert_price_last_dates(tables, last_dates, df, row)
       IN /\ last_dates' = r.tbl
          /\ ret' = [NoRet EXCEPT
                       !.op = "upsert_price_last_dates",
                       !.key = KeyOf(df, "ticker"), !.value = r.value,
                       !.raised = r.raised, !.indates = InDates(df),
                       !.first = FirstDate(df),
                       !.incols = Range(df.columns), !.inrows = InRows(df),
                       !.inset = Range(df.rows),
                       !.old = {x \in last_dates : /\ x.ticker = row.ticker
                                                    /\ x.date = row.date},
                       !.before =
                         get_last_price_date(last_dates, KeyOf(df, "ticker"))]
  /\ nups' = nups + 1
  /\ UNCHANGED <<tables, indexes, feature_last_dates, last_dates_fred,
                 cycleVars>>

GetLastFeatureDate(f, t) ==
  /\ ret' = [NoRet EXCEPT
               !.op = "get_last_feature_date", !.key = t, !.feature = f,
               !.raised = "feature_last_dates" \notin tables,
               !.value = IF "feature_last_dates" \in tables
                         THEN get_last_feature_date(feature_last_dates, f, t)
                         ELSE None]
  /\ UNCHANGED <<storeVars, nups, cycleVars>>

GetAllLastFeatureDates(f) ==
  /\ ret' = [NoRet EXCEPT
               !.op = "get_all_last_feature_dates", !.key = f,
               !.raised = "feature_last_dates" \notin tables,
               !.all = IF "feature_last_dates" \in tables
                       THEN get_all_last_feature_dates(feature_last_dates, f)
                       ELSE {}]
  /\ UNCHANGED <<storeVars, nups, cycleVars>>

UpsertFeatureLastDates(f, df) ==
  /\ nups < MaxUpserts
  /\ LET r == upsert_feature_last_dates(tables, feature_last_dates, f, df)
     IN /\ feature_last_dates' = r.tbl
        /\ ret' = [NoRet EXCEPT !.op = "upsert_feature_last_dates",
                                !.key = f, !.feature = f,
                                !.raised = r.raised, !.missing = r.missing,
                                !.incols = Range(df.columns),
                                !.inrows = InRows(df),
                                !.inset = Range(df.rows),
                                !.before =
                                  get_last_feature_date(
                                    feature_last_dates, f,
                                    KeyOf(df, "ticker"))]
  /\ nups' = nups + 1
  /\ UNCHANGED <<tables, indexes, last_dates, last_dates_fred, cycleVars>>

GetLastFredDate(z) ==
  /\ ret' = [NoRet EXCEPT !.op = "get_last_fred_date", !.key = z,
                          !.raised = "last_dates_fred" \notin tables,
                          !.value = IF "last_dates_fred" \in tables
                                    THEN get_last_fred_date(last_dates_fred, z)
                                    ELSE None]
  /\ UNCHANGED <<storeVars, nups, cycleVars>>

UpsertFredLastDates(df) ==
  /\ nups < MaxUpserts
  /\ \E row \in (IF df.isnone \/ empty(df) THEN {FredRow("", None)}
                 ELSE df_last(df)) :
       LET r == upsert_fred_last_dates(tables, last_dates_fred, df, row)
       IN /\ last_dates_fred' = r.tbl
          /\ ret' = [NoRet EXCEPT
                       !.op = "upsert_fred_last_dates",
                       !.key = KeyOf(df, "zone"), !.value = r.value,
                       !.raised = r.raised, !.indates = InDates(df),
                       !.first = FirstDate(df),
                       !.incols = Range(df.columns), !.inrows = InRows(df),
                       !.before =
                         get_last_fred_date(last_dates_fred, KeyOf(df, "zone"))]
  /\ nups' = nups + 1
  /\ UNCHANGED <<tables, indexes, last_dates, feature_last_dates, cycleVars>>

\* ------------------------------------------------------------------- init
\* A fresh data/_meta.db and an empty dataset directory; main() not started.
Init ==
  /\ tables = {}
  /\ indexes = {}
  /\ last_dates = {}
  /\ feature_last_dates = {}
  /\ last_dates_fred = {}
  /\ ret = NoRet
  /\ nups = 0
  /\ today = 1
  /\ provider = [t \in Tickers |-> {}]
  /\ dataset = {}
  /\ pc = "idle"
  /\ exc = ""
  /\ at = ""
  /\ cycle = 0
  /\ i = 1
  /\ last = None
  /\ start = None
  /\ df2 = Frame(cols, <<>>)
  /\ new_last = None
  /\ total = 0
  /\ written = [t \in Tickers |-> -1]
  /\ cpStart = [t \in Tickers |-> None]
  /\ rowsStart = 0
  /\ repeat = FALSE
  /\ dirty = FALSE
  /\ df1 = RawNone
  /\ other = NoOther

\* The whole store used directly: any sequence of calls of db.py's
\* functions over the three tables, each upsert given at most one row.
NextStore ==
  \/ InitPricesDb
  \/ InitFeatureDb
  \/ InitFredDb
  \/ \E t \in Tickers : GetLastPriceDate(t)
  \/ \E df \in PriceFrames(1) : UpsertPriceLastDates(df)
  \/ \E f \in Features, t \in Tickers : GetLastFeatureDate(f, t)
  \/ \E f \in Features : GetAllLastFeatureDates(f)
  \/ \E f \in Features, df \in FeatureFrames(1) : UpsertFeatureLastDates(f, df)
  \/ \E z \in Zones : GetLastFredDate(z)
  \/ \E df \in FredFrames(1) : UpsertFredLastDates(df)

SpecStore == Init /\ [][NextStore]_vars

\* The price checkpoints used directly, with tables of up to MaxRows rows.
NextPrices ==
  \/ InitPricesDb
  \/ \E t \in Tickers : GetLastPriceDate(t)
  \/ \E df \in PriceFrames(MaxRows) : UpsertPriceLastDates(df)

SpecPrices == Init /\ [][NextPrices]_vars

\* The feature table alone, with tables of several rows that have the
\* columns ticker and date.
NextFeatures ==
  \/ InitFeatureDb
  \/ \E f \in Features, t \in Tickers : GetLastFeatureDate(f, t)
  \/ \E f \in Features : GetAllLastFeatureDates(f)
  \/ \E f \in Features,
        df \in FeatureFramesOf({<<"ticker", "date">>}, MaxRows) :
       UpsertFeatureLastDates(f, df)

SpecFeatures == Init /\ [][NextFeatures]_vars

\* ------------------------------------------------- ingestion: operations
RECURSIVE SortedSeq(_)
\* The elements of a set of day indexes in increasing order.
SortedSeq(S) ==
  IF S = {} THEN <<>>
  ELSE LET m == CHOOSE x \in S : \A y \in S : x <= y
       IN <<m>> \o SortedSeq(S \ {m})

\* The six fields of one hourly bar as the provider returns them.
RawFields == <<"Open", "High", "Low", "Close", "Adj Close", "Volume">>

\* The column spellings the provider answers with in a run: the usual six,
\* the six without Close, and the six with the AdjClose spelling.
CycleFields ==
  {RawFields,
   <<"Open", "High", "Low", "Adj Close", "Volume">>,
   <<"Open", "High", "Low", "Close", "AdjClose", "Volume">>}

\* yfinance.py:57-70  download_one(ticker, start): the hourly bars of the
\* ticker from `start` on, oldest first, as yf.download returns them, under
\* the column names `fields`; with MultiIndex columns (field, ticker) when
\* multi.
download_one(published, ticker, start_, multi, fields) ==
  LET days == SortedSeq({k \in published : DateLE(start_, Days[k])})
      n == Len(days) * HoursPerDay
      day(j) == Days[days[((j - 1) \div HoursPerDay) + 1]]
      hour(j) == ((j - 1) % HoursPerDay) + 1
  IN RawFrame(multi,
              [c \in 1..Len(fields) |->
                 <<fields[c], IF multi THEN ticker ELSE "">>],
              [j \in 1..n |-> <<day(j)[1], day(j)[2], day(j)[3], hour(j)>>],
              [j \in 1..n |-> [c \in 1..Len(fields) |-> Num(day(j)[3])]])

\* yfinance.py:117-118  the canonical names of the table lack a required
\* field ("date" is the index that reset_index turns into a column).
LacksRequired(raw, ticker) ==
  ~ (required \subseteq
       (Range(NormalizedNames(raw, SelectedPositions(raw, ticker)))
          \cup {"date"}))

\* datetime + timedelta(days=n): the time of day is kept.
DtAddDays(dt, n) ==
  LET d == AddDays(<<dt[1], dt[2], dt[3]>>, n)
  IN <<d[1], d[2], d[3], dt[4]>>

\* FetchStart without the "+ 1 day": the window starts on the checkpoint day.
FetchStartAtLast(last_, now) ==
  IF last_ = None
  THEN strftime(DtAddDays(now, 0 - LookbackDays))
  ELSE strftime(strptime(last_))

\* FetchStart adding one to the day of the month of the checkpoint string.
FetchStartNaive(last_, now) ==
  IF last_ = None
  THEN strftime(DtAddDays(now, 0 - LookbackDays))
  ELSE <<last_[1], last_[2], last_[3] + 1>>

\* FetchStart going back one calendar month (same day of the previous
\* month, or its last day) instead of 30 days.
FetchStartCalendarMonth(last_, now) ==
  IF last_ = None
  THEN LET y == IF now[2] = 1 THEN now[1] - 1 ELSE now[1]
           m == IF now[2] = 1 THEN 12 ELSE now[2] - 1
       IN <<y, m, IF now[3] > DaysInMonth(y, m) THEN DaysInMonth(y, m)
                  ELSE now[3]>>
  ELSE strftime(DtAddDays(strptime(last_), 1))

\* yfinance.py:153-159  the start of the fetch window.
FetchStart(last_, now) ==
  IF last_ = None
  THEN strftime(DtAddDays(now, 0 - LookbackDays))
  ELSE strftime(DtAddDays(strptime(last_), 1))

\* datetime.now() on day `today` (some time of that day).
Now == <<Days[today][1], Days[today][2], Days[today][3], 12>>

\* data/storage/parquet.py append_prices_dataset, from spec.md 4.3: the
\* rows are written keyed by (ticker, date), a later row replacing an
\* earlier one of the same key; returns the number of rows written.
append_prices_dataset(ds, df) ==
  LET idx == 1..Len(df.rows)
      lastOf == {j \in idx : \A k \in idx :
                   (df.rows[k].ticker = df.rows[j].ticker
                    /\ df.rows[k].date = df.rows[j].date) => k <= j}
      keys == {<<df.rows[j].ticker, df.rows[j].date>> : j \in idx}
  IN [dataset |-> {x \in ds : <<x.ticker, x.date>> \notin keys}
                    \cup {df.rows[j] : j \in lastOf},
      inserted |-> Cardinality(keys)]

\* The greatest date of the ticker's rows in the dataset, None without rows.
MaxAppended(ds, ticker) ==
  MaxDate({x.date : x \in {y \in ds : y.ticker = ticker}})

\* A date of the calendar.
IsDate(d) ==
  /\ d[2] \in 1..12
  /\ d[3] \in 1..DaysInMonth(d[1], d[2])

\* date.toordinal(): the number of the day, counted from 0001-01-01 = 1.
toordinal(d) ==
  LET y == d[1] - 1
      before == <<0, 31, 59, 90, 120, 151, 181, 212, 243, 273, 304, 334>>
  IN 365 * y + (y \div 4) - (y \div 100) + (y \div 400)
       + before[d[2]] + (IF d[2] > 2 /\ IsLeap(d[1]) THEN 1 ELSE 0) + d[3]

\* ---------------------------------------------------- ingestion: actions
\* yfinance.py:147-150  main() starts: connect, init_prices_last_dates_db,
\* total = 0, first ticker.
StartCycle ==
  /\ pc \in {"idle", "done", "raised"}
  /\ cycle < MaxCycles
  /\ LET db == init_prices_last_dates_db(Schema)
     IN /\ tables' = db.tables
        /\ indexes' = db.indexes
  /\ pc' = "read"
  /\ exc' = ""
  /\ at' = ""
  /\ cycle' = cycle + 1
  /\ i' = 1
  /\ last' = None
  /\ start' = None
  /\ df2' = Frame(cols, <<>>)
  /\ new_last' = None
  /\ total' = 0
  /\ written' = [t \in Tickers |-> -1]
  /\ cpStart' = Checkpoints(last_dates)
  /\ rowsStart' = Cardinality(dataset)
  /\ repeat' = (pc = "done" /\ ~ dirty)
  /\ dirty' = FALSE
  /\ df1' = RawNone
  /\ UNCHANGED <<last_dates, feature_last_dates, last_dates_fred, ret, nups,
                 other, today, provider, dataset>>

\* yfinance.py:152-159
ReadLast ==
  /\ pc = "read"
  /\ last' = get_last_price_date(last_dates, YF_TICKERS[i])
  /\ start' = FetchStart(last', Now)
  /\ pc' = "fetch"
  /\ UNCHANGED <<storeVars, ret, nups, df1, other, today, provider, dataset,
                 exc, at,
                 cycle, i, df2, new_last, total, written, cpStart, rowsStart,
                 repeat, dirty>>

\* RaiseWith as `except Exception: log, continue`: the failure is noted and
\* the loop goes on with the next ticker.
SwallowWith(e, raw) ==
  /\ exc' = e
  /\ at' = pc
  /\ IF i < Len(YF_TICKERS)
     THEN /\ i' = i + 1
          /\ pc' = "read"
     ELSE /\ i' = i
          /\ pc' = "done"
  /\ last' = None
  /\ start' = None
  /\ df2' = Frame(cols, <<>>)
  /\ new_last' = None
  /\ df1' = RawNone
  /\ UNCHANGED <<storeVars, ret, nups, other, today, provider, dataset, cycle,
                 total, written, cpStart, rowsStart, repeat, dirty>>

\* An exception leaves main(), which catches none: the run ends there.
\* `i` and `last` keep telling which ticker was in progress and what its
\* checkpoint was when the run read it.
RaiseWith(e, raw) ==
  /\ pc' = "raised"
  /\ exc' = e
  /\ at' = pc
  /\ start' = None
  /\ df2' = Frame(cols, <<>>)
  /\ new_last' = None
  /\ total' = 0
  /\ df1' = raw
  /\ UNCHANGED <<storeVars, ret, nups, other, today, provider, dataset,
                 cycle, i,
                 last, written, cpStart, rowsStart, repeat, dirty>>

Raise(e) == RaiseWith(e, RawNone)

\* yfinance.py:161-162  the provider answers.
Fetch ==
  /\ pc = "fetch"
  /\ \E multi \in BOOLEAN, fields \in CycleFields :
       LET raw == download_one(provider[YF_TICKERS[i]], YF_TICKERS[i], start,
                               multi, fields)
           n == normalize_yf(raw, YF_TICKERS[i])
       IN IF n.raised
          THEN RaiseWith("TypeError", raw)
          ELSE /\ pc' = "upsert"
               /\ df1' = raw
               /\ df2' = n.frame
               /\ dirty' = (dirty \/ (~ RawEmpty(raw)
                                       /\ LacksRequired(raw, YF_TICKERS[i])))
               /\ UNCHANGED <<storeVars, ret, nups, other, today, provider,
                              dataset, exc, at, cycle, i, last, start,
                              new_last, total, written, cpStart, rowsStart,
                              repeat>>

\* yfinance.py:161  the provider call raises (unreachable, rate limit, ...).
FetchFail ==
  /\ pc = "fetch"
  /\ Raise("ProviderError")

\* yfinance.py:164
UpsertCheckpoint ==
  /\ pc = "upsert"
  /\ \E row \in (IF empty(df2) THEN {PriceRow("", None, 1)}
                 ELSE df_last(df2)) :
       LET r == upsert_price_last_dates(tables, last_dates, df2, row)
       IN IF r.raised
          THEN Raise("StorageError")
          ELSE /\ pc' = "append"
               /\ last_dates' = r.tbl
               /\ new_last' = r.value
               /\ UNCHANGED <<tables, indexes, feature_last_dates,
                              last_dates_fred, ret, nups, df1, other, today,
                              provider,
                              dataset, exc, at, cycle, i, last, start, df2,
                              total, written, cpStart, rowsStart, repeat,
                              dirty>>

\* yfinance.py:165-170  append, total, print; then the next ticker, or
\* conn.close() after the last one.
AppendDataset ==
  /\ pc = "append"
  /\ LET a == append_prices_dataset(dataset, df2)
     IN /\ dataset' = a.dataset
        /\ total' = total + a.inserted
        /\ written' = [written EXCEPT ![YF_TICKERS[i]] = a.inserted]
  /\ IF i < Len(YF_TICKERS)
     THEN /\ i' = i + 1
          /\ pc' = "read"
     ELSE /\ i' = i
          /\ pc' = "done"
  /\ last' = None
  /\ start' = None
  /\ df2' = Frame(cols, <<>>)
  /\ new_last' = None
  /\ df1' = RawNone
  /\ UNCHANGED <<storeVars, ret, nups, other, today, provider, exc, at, cycle,
                 cpStart, rowsStart, repeat, dirty>>

\* yfinance.py:165  the dataset writer raises; nothing was written.
AppendDatasetFail ==
  /\ pc = "append"
  /\ Raise("AppendError")

\* yfinance.py:152, 164  the checkpoint store fails (sqlite3.Error: the
\* database is locked, unreadable, ...) in get_last_price_date, or in
\* upsert_price_last_dates, which touches the store for a table with rows.
StorageFail ==
  /\ pc = "read" \/ (pc = "upsert" /\ ~ empty(df2))
  /\ Raise("StorageError")

\* The run is aborted (KeyboardInterrupt) wherever it is.
Interrupt ==
  /\ pc \in {"read", "fetch", "upsert", "append"}
  /\ Raise("KeyboardInterrupt")

\* A day passes.  The tickers are fetched independently of each other, so a
\* day that passes, or bars published, while main() runs act on each ticker
\* as if they came before or after the run: the model places them there.
Tick ==
  /\ pc \in {"idle", "done", "raised"}
  /\ cycle < MaxCycles
  /\ today < MaxDays
  /\ today' = today + 1
  /\ UNCHANGED <<storeVars, ret, nups, df1, other, provider, dataset, pc,
                 exc, at, cycle,
                 i, last, start, df2, new_last, total, written, cpStart,
                 rowsStart, repeat, dirty>>

\* The provider publishes today's bars of a ticker.
Publish(t) ==
  /\ pc \in {"idle", "done", "raised"}
  /\ cycle < MaxCycles
  /\ today \notin provider[t]
  /\ provider' = [provider EXCEPT ![t] = @ \cup {today}]
  /\ dirty' = TRUE
  /\ UNCHANGED <<storeVars, ret, nups, df1, other, today, dataset, pc, exc,
                 at, cycle, i,
                 last, start, df2, new_last, total, written, cpStart,
                 rowsStart, repeat>>

Next ==
  \/ StartCycle
  \/ ReadLast
  \/ Fetch
  \/ FetchFail
  \/ UpsertCheckpoint
  \/ AppendDataset
  \/ AppendDatasetFail
  \/ StorageFail
  \/ Interrupt
  \/ Tick
  \/ \E t \in Tickers : Publish(t)

\* Runs of main() against a provider that publishes as days pass.
Spec == Init /\ [][Next]_vars

\* ------------------------------------------------ normalize_yf called alone
\* The instruments a provider table can hold columns of.
Instruments == <<"AAPL", "MSFT", "NVDA">>

\* The number of an instrument, 0 for the "" of one-level columns.
InstId(x) ==
  IF x = "" THEN 0 ELSE CHOOSE k \in 1..Len(Instruments) : Instruments[k] = x

\* The instruments of a table, in column order: one-level columns, the
\* ticker alone, two instruments either way round, other instruments only.
InstrumentLists ==
  {<<"">>, <<"AAPL">>, <<"MSFT">>, <<"AAPL", "MSFT">>, <<"MSFT", "AAPL">>,
   <<"MSFT", "NVDA">>}

\* The column names of a table: the usual six; without Close; in other
\* case and spacing; with the AdjClose spelling; with one more column; with
\* a column named date or Date besides the index.
FieldLists ==
  {RawFields,
   <<"Open", "High", "Low", "Adj Close", "Volume">>,
   <<"OPEN", "High", "Low", " close ", "adj close", "Volume">>,
   <<"Open", "High", "Low", "Close", "AdjClose", "Volume">>,
   <<"Open", "High", "Low", "Close", "Adj Close", "Volume", "Dividends">>,
   <<"date", "Open", "High", "Low", "Adj Close", "Volume">>,
   <<"Date", "Open", "High", "Low", "Close", "Adj Close", "Volume">>}

\* yf.download(group_by="column"): a table of n bars whose columns are every
\* field of every instrument, field by field.  The cell of bar j, field
\* number f and instrument number k holds 100 * k + 10 * f + j, so that a
\* value tells whose it is; with nat the first bar has no timestamp, and
\* the last bar holds, by its kind, such numbers, text in every field, no
\* value in any field, negative numbers, or numbers with a fraction.
BarKinds == {"num", "text", "missing", "negative", "fraction"}

WideFrame(insts, fields, n, nat, kind) ==
  LET ni == Len(insts)
      fi(c) == ((c - 1) \div ni) + 1
      ii(c) == ((c - 1) % ni) + 1
  IN RawFrame(insts # <<"">>,
              [c \in 1..(Len(fields) * ni) |-> <<fields[fi(c)], insts[ii(c)]>>],
              [j \in 1..n |-> IF nat /\ j = 1 THEN NaT ELSE <<2024, 1, j, 10>>],
              [j \in 1..n |->
                 [c \in 1..(Len(fields) * ni) |->
                    LET x == 100 * InstId(insts[ii(c)]) + 10 * fi(c) + j
                    IN IF j < n \/ kind = "num" THEN Num(x)
                       ELSE IF kind = "text" THEN Str(x)
                       ELSE IF kind = "missing" THEN NaN
                       ELSE IF kind = "negative" THEN Half(0 - x)
                       ELSE Half(x)]])

RawTables ==
  {RawNone} \cup
  {WideFrame(x[1], x[2], x[3], x[4], x[5]) :
     x \in InstrumentLists \X FieldLists \X (0..MaxRows) \X BOOLEAN
            \X BarKinds}

\* yfinance.py:73-141  one call normalize_yf(raw, ticker).  The function
\* reads and writes nothing but its arguments and its result, so a
\* behaviour holds one call.
NormalizeYf(raw, ticker) ==
  LET n == normalize_yf(raw, ticker)
  IN /\ ret.op = ""
     /\ df1' = raw
     /\ df2' = n.frame
     /\ ret' = [NoRet EXCEPT !.op = "normalize_yf", !.key = ticker,
                             !.raised = n.raised]
     /\ UNCHANGED <<storeVars, nups, today, provider, dataset, pc, exc, at,
                    cycle, i, last, start, new_last, total, written, cpStart,
                    rowsStart, repeat, dirty, other>>

NextNormalize == \E raw \in RawTables, t \in Tickers : NormalizeYf(raw, t)

\* normalize_yf applied to the tables a provider can answer with.
SpecNormalize == Init /\ [][NextNormalize]_vars

\* ------------------------------------------- ingestion: a second process
\* main() run a second time, by another process on the same data/_meta.db
\* and the same dataset, while the first run is anywhere in its own loop.
\* The statements are those of the first run, acting on the locals `other`.
OtherTicker == YF_TICKERS[other.i]

\* yfinance.py:147-150
OtherStart ==
  /\ other.pc = "idle"
  /\ cycle > 0
  /\ LET db == init_prices_last_dates_db(Schema)
     IN /\ tables' = db.tables
        /\ indexes' = db.indexes
  /\ other' = [NoOther EXCEPT !.pc = "read"]
  /\ UNCHANGED <<last_dates, feature_last_dates, last_dates_fred, ret, nups,
                 today, provider, dataset, pc, exc, at, cycle, i, last, start,
                 df2, new_last, total, written, cpStart, rowsStart, repeat,
                 dirty, df1>>

\* yfinance.py:152-159
OtherReadLast ==
  /\ other.pc = "read"
  /\ LET l == get_last_price_date(last_dates, OtherTicker)
     IN other' = [other EXCEPT !.pc = "fetch", !.last = l,
                               !.start = FetchStart(l, Now)]
  /\ UNCHANGED <<storeVars, ret, nups, today, provider, dataset, pc, exc, at,
                 cycle, i, last, start, df2, new_last, total, written,
                 cpStart, rowsStart, repeat, dirty, df1>>

\* yfinance.py:161-162
OtherFetch ==
  /\ other.pc = "fetch"
  /\ \E multi \in BOOLEAN :
       LET raw == download_one(provider[OtherTicker], OtherTicker,
                               other.start, multi, RawFields)
           n == normalize_yf(raw, OtherTicker)
       IN other' = IF n.raised THEN [NoOther EXCEPT !.pc = "raised"]
                   ELSE [other EXCEPT !.pc = "upsert", !.df2 = n.frame]
  /\ UNCHANGED <<storeVars, ret, nups, today, provider, dataset, pc, exc, at,
                 cycle, i, last, start, df2, new_last, total, written,
                 cpStart, rowsStart, repeat, dirty, df1>>

\* yfinance.py:164
OtherUpsert ==
  /\ other.pc = "upsert"
  /\ \E row \in (IF empty(other.df2) THEN {PriceRow("", None, 1)}
                 ELSE df_last(other.df2)) :
       LET r == upsert_price_last_dates(tables, last_dates, other.df2, row)
       IN IF r.raised
          THEN /\ other' = [NoOther EXCEPT !.pc = "raised"]
               /\ UNCHANGED last_dates
          ELSE /\ other' = [other EXCEPT !.pc = "append",
                                         !.new_last = r.value]
               /\ last_dates' = r.tbl
  /\ UNCHANGED <<tables, indexes, feature_last_dates, last_dates_fred, ret,
                 nups, today, provider, dataset, pc, exc, at, cycle, i, last,
                 start, df2, new_last, total, written, cpStart, rowsStart,
                 repeat, dirty, df1>>

\* yfinance.py:165-170
OtherAppend ==
  /\ other.pc = "append"
  /\ dataset' = append_prices_dataset(dataset, other.df2).dataset
  /\ other' = IF other.i < Len(YF_TICKERS)
              THEN [NoOther EXCEPT !.pc = "read", !.i = other.i + 1]
              ELSE [NoOther EXCEPT !.pc = "done", !.i = other.i]
  /\ UNCHANGED <<storeVars, ret, nups, today, provider, pc, exc, at, cycle, i,
                 last, start, df2, new_last, total, written, cpStart,
                 rowsStart, repeat, dirty, df1>>

NextConcurrent ==
  \/ StartCycle
  \/ ReadLast
  \/ Fetch
  \/ UpsertCheckpoint
  \/ AppendDataset
  \/ \E t \in Tickers : Publish(t)
  \/ OtherStart
  \/ OtherReadLast
  \/ OtherFetch
  \/ OtherUpsert
  \/ OtherAppend

\* Two processes running main() at the same time.
SpecConcurrent == Init /\ [][NextConcurrent]_vars

\* ----------------------------------------------------------------- claims
\* C1: in every run of main(), the checkpoint of a ticker is written only
\* after append_prices_dataset has returned for the same rows: while the
\* append has not returned, and after a run that raised or was aborted in
\* the middle of a ticker, that ticker's checkpoint is still the `last` the
\* run read.
C1_CheckpointFollowsAppend ==
  (\/ pc \in {"fetch", "upsert", "append"}
   \/ pc = "raised" /\ at \in {"fetch", "upsert", "append"})
    => get_last_price_date(last_dates, YF_TICKERS[i]) = last

\* C2: whenever main() is between two tickers or has ended (returned, raised
\* or aborted), the checkpoint of every ticker is the greatest date of the
\* rows appended to the dataset for it, and None without such a row.
C2_CheckpointIsMaxAppended ==
  pc \in {"idle", "read", "done", "raised"}
    => \A t \in Tickers :
         get_last_price_date(last_dates, t) = MaxAppended(dataset, t)

\* C3: a provider error for one ticker does not end the run: when main() has
\* ended and nothing but provider errors occurred, every ticker has been
\* processed, except the tickers whose fetch failed, whose checkpoint is
\* the one the run started with.
C3_PartialFailureIsolation ==
  (pc \in {"done", "raised"} /\ exc \in {"", "ProviderError"})
    => \A t \in Tickers :
         \/ written[t] >= 0
         \/ /\ exc = "ProviderError"
            /\ t = YF_TICKERS[i]
            /\ get_last_price_date(last_dates, t) = cpStart[t]

\* C4: a run of main() that follows a completed run, the provider's data
\* unchanged in between, leaves every checkpoint as it found it, writes 0
\* rows for every ticker and adds no row to the dataset.
C4_Idempotence ==
  (pc = "done" /\ repeat)
    => /\ \A t \in Tickers :
            /\ get_last_price_date(last_dates, t) = cpStart[t]
            /\ written[t] = 0
       /\ Cardinality(dataset) = rowsStart

\* C4 witness: a repeated run has completed over checkpoints and dataset
\* rows that the run before it wrote.
C4_Witness ==
  /\ pc = "done"
  /\ repeat
  /\ \A t \in Tickers : cpStart[t] # None
  /\ rowsStart > 0

\* C5: no step of any run lowers the checkpoint of a ticker: the date
\* get_last_price_date returns after the step is that before it, or later.
C5_MonotonicCheckpoint ==
  [][\A t \in Tickers :
       DateLE(get_last_price_date(last_dates, t),
              get_last_price_date(last_dates', t))]_vars

\* C5 witness: a run has completed that moved an existing checkpoint to a
\* later date.
C5_Witness ==
  /\ pc = "done"
  /\ \E t \in Tickers :
       /\ cpStart[t] # None
       /\ DateLT(cpStart[t], get_last_price_date(last_dates, t))

\* C6 as stated: after any sequence of upserts each table holds at most one
\* row per key: one last_dates row per ticker, one feature_last_dates row
\* per (feature, ticker), one last_dates_fred row per zone.
C6_OneRecordPerKey ==
  /\ \A t \in Tickers : Cardinality({x \in last_dates : x.ticker = t}) <= 1
  /\ \A f \in Features, t \in Tickers :
       Cardinality({x \in feature_last_dates :
                      x.feature = f /\ x.ticker = t}) <= 1
  /\ \A z \in Zones : Cardinality({x \in last_dates_fred : x.zone = z}) <= 1

\* C6 amended: after any sequence of upserts each table holds at most one
\* row per primary key: one last_dates row per (ticker, date), one
\* feature_last_dates row per (feature, ticker), one last_dates_fred row
\* per (zone, date); an upsert of an existing primary key overwrites the
\* row and adds none.
C6_OneRecordPerPrimaryKey ==
  /\ \A x, y \in last_dates :
       (x.ticker = y.ticker /\ x.date = y.date) => x = y
  /\ \A x, y \in feature_last_dates :
       (x.feature = y.feature /\ x.ticker = y.ticker) => x = y
  /\ \A x, y \in last_dates_fred :
       (x.zone = y.zone /\ x.date = y.date) => x = y

\* C6 witness: an upsert has written the (ticker, date) that was already
\* the ticker's checkpoint, and the ticker still has one row.
C6_Witness ==
  /\ ret.op = "upsert_price_last_dates"
  /\ ~ ret.raised
  /\ ret.value # None
  /\ ret.before = ret.value
  /\ Cardinality({x \in last_dates : x.ticker = ret.key}) = 1

\* C7: on an initialised store, upsert_price_last_dates given a non-empty
\* table of rows of one ticker, in any order, stores a row of that ticker
\* whose date is the greatest date of the table, and returns that date.
C7_MaxSelection ==
  (/\ ret.op = "upsert_price_last_dates"
   /\ ret.indates # {}
   /\ "last_dates" \in tables)
    => /\ ~ ret.raised
       /\ ret.value = MaxDate(ret.indates)
       /\ \E x \in last_dates :
            x.ticker = ret.key /\ x.date = MaxDate(ret.indates)

\* C7 witness: the upsert was given rows of several dates with the greatest
\* date first, and returned it.
C7_Witness ==
  /\ ret.op = "upsert_price_last_dates"
  /\ ~ ret.raised
  /\ Cardinality(ret.indates) > 1
  /\ ret.first = MaxDate(ret.indates)
  /\ ret.value = ret.first

\* C8 as stated: the date returned by upsert_price_last_dates for a
\* non-empty table is what get_last_price_date returns for the ticker
\* right after the call.
C8_ReturnedIsCheckpoint ==
  (/\ ret.op = "upsert_price_last_dates"
   /\ ret.indates # {}
   /\ ~ ret.raised)
    => get_last_price_date(last_dates, ret.key) = ret.value

\* C8 amended: the date d returned by upsert_price_last_dates for a
\* non-empty table is the date of a row of the ticker afterwards, and
\* get_last_price_date right after the call returns the later of d and the
\* ticker's checkpoint before the call: d, unless the checkpoint was later.
C8_CheckpointAfterUpsert ==
  (/\ ret.op = "upsert_price_last_dates"
   /\ ret.indates # {}
   /\ "last_dates" \in tables)
    => /\ ~ ret.raised
       /\ \E x \in last_dates : x.ticker = ret.key /\ x.date = ret.value
       /\ get_last_price_date(last_dates, ret.key) =
            (IF DateLT(ret.value, ret.before) THEN ret.before ELSE ret.value)

\* C8 witness: an upsert returned a date earlier than the checkpoint the
\* ticker already had.
C8_Witness ==
  /\ ret.op = "upsert_price_last_dates"
  /\ ~ ret.raised
  /\ ret.value # None
  /\ DateLT(ret.value, ret.before)

\* C9: upsert_fred_last_dates given a non-empty table of rows of one zone,
\* the table last_dates_fred existing, writes the zone's row of the greatest
\* date and returns that date, which get_last_fred_date then returns.
C9_FredUpsertStoresMax ==
  (/\ ret.op = "upsert_fred_last_dates"
   /\ ret.indates # {}
   /\ "last_dates_fred" \in tables)
    => /\ ~ ret.raised
       /\ ret.value = MaxDate(ret.indates)
       /\ get_last_fred_date(last_dates_fred, ret.key) = ret.value

\* C10: the three init functions complete without error in any order and
\* any number of times, and once the three tables exist the get and upsert
\* functions of the three tables do not fail.
C10_InitsComplete ==
  /\ ret.op \in {"init_prices_last_dates_db", "init_feature_last_dates_db",
                 "init_fred_last_dates_db"} => ~ ret.raised
  /\ (/\ tables = {"last_dates", "feature_last_dates", "last_dates_fred"}
      /\ ret.op \in {"get_last_price_date", "get_last_feature_date",
                     "get_all_last_feature_dates", "get_last_fred_date",
                     "upsert_price_last_dates", "upsert_fred_last_dates"})
       => ~ ret.raised

\* C11: on a store whose table exists, get_last_price_date,
\* get_last_feature_date and get_last_fred_date return None and do not
\* fail for a key that has no row, whatever rows exist for other keys.
C11_AbsentOnNeverSeen ==
  /\ (/\ ret.op = "get_last_price_date"
      /\ "last_dates" \in tables
      /\ \A x \in last_dates : x.ticker # ret.key)
       => (~ ret.raised /\ ret.value = None)
  /\ (/\ ret.op = "get_last_feature_date"
      /\ "feature_last_dates" \in tables
      /\ \A x \in feature_last_dates :
           ~ (x.feature = ret.feature /\ x.ticker = ret.key))
       => (~ ret.raised /\ ret.value = None)
  /\ (/\ ret.op = "get_last_fred_date"
      /\ "last_dates_fred" \in tables
      /\ \A x \in last_dates_fred : x.zone # ret.key)
       => (~ ret.raised /\ ret.value = None)

\* C11 witness: a ticker without a row was read while another ticker had a
\* checkpoint.
C11_Witness ==
  /\ ret.op = "get_last_price_date"
  /\ ~ ret.raised
  /\ ret.value = None
  /\ \E x \in last_dates : x.ticker # ret.key
  /\ \A x \in last_dates : x.ticker # ret.key

\* C12: an upsert of any of the three tables called with None or with an
\* empty table returns None, raises nothing and leaves every row of every
\* table as it was, whether or not the tables exist.
C12_EmptyUpsertNoOp ==
  [][(/\ nups' = nups + 1
      /\ ret'.op \in {"upsert_price_last_dates", "upsert_feature_last_dates",
                      "upsert_fred_last_dates"}
      /\ (ret'.inrows <= 0 \/ ret'.incols = {}))
       => (/\ ~ ret'.raised
           /\ ret'.value = None
           /\ UNCHANGED storeVars)]_vars

\* C12 witness: upsert_price_last_dates was given a table without rows
\* while the store held checkpoints.
C12_Witness ==
  /\ ret.op = "upsert_price_last_dates"
  /\ ret.inrows = 0
  /\ ret.incols # {}
  /\ ~ ret.raised
  /\ ret.value = None
  /\ last_dates # {}

\* C13 as stated: upsert_feature_last_dates given a table that lacks the
\* date column or the ticker column, with rows or without, raises an error
\* naming exactly the missing columns and changes no row of the store.
C13_MissingColumnRaises ==
  [][(/\ nups' = nups + 1
      /\ ret'.op = "upsert_feature_last_dates"
      /\ ret'.inrows >= 0
      /\ ~ ({"ticker", "date"} \subseteq ret'.incols))
       => (/\ ret'.raised
           /\ ret'.missing = {"ticker", "date"} \ ret'.incols
           /\ UNCHANGED storeVars)]_vars

\* C13 amended: upsert_feature_last_dates given a table of at least one row
\* and one column that lacks the date column or the ticker column raises an
\* error naming exactly the missing columns and changes no row of the store.
C13_MissingColumnRaisesNonEmpty ==
  [][(/\ nups' = nups + 1
      /\ ret'.op = "upsert_feature_last_dates"
      /\ ret'.inrows >= 1
      /\ ret'.incols # {}
      /\ ~ ({"ticker", "date"} \subseteq ret'.incols))
       => (/\ ret'.raised
           /\ ret'.missing = {"ticker", "date"} \ ret'.incols
           /\ UNCHANGED storeVars)]_vars

\* C13 witness: a table with a row and without the date column was
\* refused, naming date, while the store held a feature checkpoint.
C13_Witness ==
  /\ ret.op = "upsert_feature_last_dates"
  /\ ret.inrows >= 1
  /\ ret.incols = {"ticker"}
  /\ ret.raised
  /\ ret.missing = {"date"}
  /\ feature_last_dates # {}

\* C14: when the raw table fetched for a ticker lacks a required field
\* after canonicalization, normalize_yf returns zero rows without raising,
\* and the run goes on for that ticker without a failure of its own: the
\* upsert writes no checkpoint, the append writes no row and counts 0, and
\* only an abort or a failure of the dataset writer can end the run there.
C14_MalformedRawTable ==
  [][/\ (/\ pc = "fetch"
         /\ ~ df1'.isnone
         /\ LacksRequired(df1', YF_TICKERS[i]))
       => (pc' = "upsert" /\ Len(df2'.rows) = 0)
     /\ (/\ pc \in {"upsert", "append"}
         /\ LacksRequired(df1, YF_TICKERS[i]))
       => (/\ Len(df2.rows) = 0
           /\ last_dates' = last_dates
           /\ dataset' = dataset
           /\ get_last_price_date(last_dates', YF_TICKERS[i]) = last
           /\ pc' = "raised" => exc' \in {"KeyboardInterrupt", "AppendError"}
           /\ (pc = "upsert" /\ pc' = "append") => new_last' = None
           /\ (pc = "append" /\ pc' \in {"read", "done"})
                => (written'[YF_TICKERS[i]] = 0 /\ total' = total))]_vars

\* C14 witness: the raw table of the ticker had bars and no Close column,
\* normalize_yf returned no row and the upsert returned None.
C14_Witness ==
  /\ pc = "append"
  /\ ~ RawEmpty(df1)
  /\ LacksRequired(df1, YF_TICKERS[i])
  /\ Len(df2.rows) = 0
  /\ new_last = None

\* Checkpoint dates at the end of a month, of February in a leap year and
\* in a common year, and of a year.
MonthEnds ==
  {<<2023, 2, 28>>, <<2024, 2, 28>>, <<2024, 2, 29>>, <<2023, 4, 30>>,
   <<2024, 1, 31>>, <<2023, 12, 31>>}

\* C15: while a run processes a ticker whose checkpoint it read as `last`,
\* the start of its fetch window is the calendar day after `last`, also
\* across a month or year end, and no normalized row of the window is dated
\* `last` or earlier; the start that step computes for a checkpoint at any
\* month end is the day after it as well.
C15_StartIsDayAfterLast ==
  /\ (pc \in {"fetch", "upsert", "append"} /\ last # None)
       => /\ IsDate(start)
          /\ toordinal(start) = toordinal(last) + 1
          /\ \A k \in 1..Len(df2.rows) : DateLT(last, df2.rows[k].date)
  /\ pc = "fetch"
       => \A d \in MonthEnds :
            /\ IsDate(FetchStart(d, Now))
            /\ toordinal(FetchStart(d, Now)) = toordinal(d) + 1

\* C15 witness: the checkpoint was the last day of the year, the window
\* starts on 1 January and has brought rows.
C15_Witness ==
  /\ pc = "upsert"
  /\ last = <<2023, 12, 31>>
  /\ start = <<2024, 1, 1>>
  /\ Len(df2.rows) > 0

\* A current time on 1 March of a leap year.
LookbackNows == {<<2024, 3, 1, 9>>}

\* C16: while a run processes a ticker for which it read no checkpoint, the
\* start of its fetch window is the current date minus 30 calendar days;
\* so is the start that step computes without a checkpoint on 1 March.
C16_DefaultLookback ==
  /\ (pc \in {"fetch", "upsert", "append"} /\ last = None)
       => /\ IsDate(start)
          /\ toordinal(start) = toordinal(Days[today]) - 30
  /\ pc = "fetch"
       => \A now \in LookbackNows :
            /\ IsDate(FetchStart(None, now))
            /\ toordinal(FetchStart(None, now))
                 = toordinal(<<now[1], now[2], now[3]>>) - 30

\* C16 witness: a ticker without a checkpoint is fetched on 1 January from
\* 2 December on.
C16_Witness ==
  /\ pc = "fetch"
  /\ last = None
  /\ Days[today] = <<2024, 1, 1>>
  /\ start = <<2023, 12, 2>>

\* C17: every run of main() that has ended, other than by an abort or by a
\* failure of the checkpoint store, has printed one outcome line for every
\* ticker of YF_TICKERS, the failed ones included, and the total line.
\* main() prints an outcome line only after a ticker's append and the total
\* line only after the loop.
C17_SummaryComplete ==
  (/\ pc \in {"done", "raised"}
   /\ exc \notin {"KeyboardInterrupt", "StorageError"})
    => /\ \A t \in Tickers : written[t] >= 0
       /\ pc = "done"

\* C19: a failure of the checkpoint store in get_last_price_date or
\* upsert_price_last_dates ends the run with that exception: the run is
\* not continued, and the tickers after the one in progress have no outcome
\* and the checkpoint they had when the run started.
C19_StorageFailurePropagates ==
  exc = "StorageError"
    => /\ pc = "raised"
       /\ at \in {"read", "upsert"}
       /\ \A j \in (i + 1)..Len(YF_TICKERS) :
            /\ written[YF_TICKERS[j]] = 0 - 1
            /\ get_last_price_date(last_dates, YF_TICKERS[j])
                 = cpStart[YF_TICKERS[j]]

\* C19 witness: the store failed in the upsert of the first ticker, whose
\* table had rows; the second ticker was not processed.
C19_Witness ==
  /\ pc = "raised"
  /\ exc = "StorageError"
  /\ at = "upsert"
  /\ i = 1
  /\ provider[YF_TICKERS[2]] # {}
  /\ written[YF_TICKERS[2]] = 0 - 1

\* C18: two runs of main() at the same time never both act on the same
\* checkpoint of a ticker: while one run holds rows for a ticker whose
\* checkpoint it read as `last`, and is writing or has written the new
\* checkpoint, the other run is not fetching, checkpointing or appending
\* that ticker from the same `last`.
C18_NoStaleConcurrentRead ==
  ~ (/\ pc \in {"upsert", "append"}
     /\ ~ empty(df2)
     /\ other.pc \in {"fetch", "upsert", "append"}
     /\ OtherTicker = YF_TICKERS[i]
     /\ other.last = last)

\* The instruments of the columns of a raw table.
InstrumentsOf(raw) == {raw.columns[c][2] : c \in 1..Len(raw.columns)}

\* Every value cell of every row of `out` is the converted value of a cell
\* of `raw` in a column of instrument `ticker`.
FromSliceOf(out, raw, ticker) ==
  \A k \in 1..Len(out.rows) : \A f \in ValueFields :
    \E r \in 1..Len(raw.index), c \in 1..Len(raw.columns) :
      /\ raw.columns[c][2] = ticker
      /\ out.rows[k][f] \in
           {to_numeric(raw.data[r][c]),
            astype_int64(fillna0(to_numeric(raw.data[r][c])))}

\* C20 as stated: when the raw table has two-level columns, every row that
\* normalize_yf(df, ticker) returns holds only values of the columns of
\* that ticker, also when the table has no column of the ticker.
C20_OnlyTickerSlice ==
  (ret.op = "normalize_yf" /\ ~ ret.raised /\ df1.multi)
    => FromSliceOf(df2, df1, ret.key)

\* C20 amended: when the raw table has two-level columns and the ticker is
\* among the instruments of their last level, normalize_yf(df, ticker) does
\* not take a column of another instrument: every row it returns is
\* labelled with the ticker and holds only values of the ticker's columns.
C20_TickerSliceWhenPresent ==
  (/\ ret.op = "normalize_yf"
   /\ ~ ret.raised
   /\ df1.multi
   /\ ret.key \in InstrumentsOf(df1))
    => /\ FromSliceOf(df2, df1, ret.key)
       /\ \A k \in 1..Len(df2.rows) : df2.rows[k].ticker = ret.key

\* C20 witness: a table of two instruments, the ticker the second of them,
\* was normalized to rows.
C20_Witness ==
  /\ ret.op = "normalize_yf"
  /\ ~ ret.raised
  /\ df1.multi
  /\ Cardinality(InstrumentsOf(df1)) = 2
  /\ df1.columns[1][2] # ret.key
  /\ ret.key \in InstrumentsOf(df1)
  /\ Len(df2.rows) > 0

\* normalize_yf returned for a raw table that has rows and every required
\* field: the k-th returned row is made of the k-th row whose date parses.
Normalized ==
  /\ ret.op = "normalize_yf"
  /\ ~ ret.raised
  /\ ~ df1.isnone
  /\ ~ RawEmpty(df1)
  /\ ~ LacksRequired(df1, ret.key)

\* The raw cell that row r of the table gives to field f of `ticker`.
FieldCell(raw, ticker, r, f) ==
  LET pos == SelectedPositions(raw, ticker)
      names == NormalizedNames(raw, pos)
  IN raw.data[r][pos[CHOOSE a \in 1..Len(pos) :
                       names[a] = f /\ \A b \in 1..(a - 1) : names[b] # f]]

\* The raw cell behind field f of the k-th returned row.
SourceCell(k, f) == FieldCell(df1, ret.key, ParsedRows(df1)[k], f)

\* normalize_yf raised although the kept columns have distinct names and
\* none of them is named date: the cells made it raise.
RaisedOnCells ==
  /\ ret.op = "normalize_yf"
  /\ ret.raised
  /\ LET names == NormalizedNames(df1, SelectedPositions(df1, ret.key))
     IN /\ "date" \notin Range(names)
        /\ Len(names) = Cardinality(Range(names))

\* C21 as stated: a raw value of open, high, low, close, adj_close or
\* volume that is not a number is null in the normalized row, and
\* normalize_yf does not raise for it.
C21_NonNumericBecomesNull ==
  /\ ~ RaisedOnCells
  /\ Normalized =>
       \A k \in 1..Len(df2.rows) : \A f \in ValueFields :
         SourceCell(k, f).k = "str" => df2.rows[k][f] = NaN

\* C21 amended: a raw value that is not a number is null in the normalized
\* row for open, high, low, close and adj_close, and 0 for volume;
\* normalize_yf does not raise for it.
C21_NonNumericCoerced ==
  /\ ~ RaisedOnCells
  /\ Normalized =>
       \A k \in 1..Len(df2.rows) : \A f \in ValueFields :
         SourceCell(k, f).k = "str" =>
           df2.rows[k][f] = (IF f = "volume" THEN Num(0) ELSE NaN)

\* C21 witness: a bar of text was normalized to a row of nulls with
\* volume 0.
C21_Witness ==
  /\ Normalized
  /\ \E k \in 1..Len(df2.rows) :
       /\ \A f \in ValueFields : SourceCell(k, f).k = "str"
       /\ df2.rows[k].open = NaN
       /\ df2.rows[k].adj_close = NaN
       /\ df2.rows[k].volume = Num(0)

\* The rows of a raw table whose timestamp parses.
Parseable(raw) == {r \in 1..Len(raw.index) : raw.index[r] # NaT}

\* C22: normalize_yf drops the rows whose date does not parse before it
\* derives year: it returns exactly one row per raw row with a parseable
\* date, every returned row has its ticker and a date, the date is a
\* calendar date in year-month-day form, and year is the year of that date.
C22_UnparseableDatesDropped ==
  Normalized =>
    /\ Len(df2.rows) = Cardinality(Parseable(df1))
    /\ {df2.rows[k].date : k \in 1..Len(df2.rows)}
         = {<<df1.index[r][1], df1.index[r][2], df1.index[r][3]>> :
              r \in Parseable(df1)}
    /\ \A k \in 1..Len(df2.rows) :
         /\ df2.rows[k].ticker = ret.key
         /\ df2.rows[k].date # None
         /\ Len(df2.rows[k].date) = 3
         /\ IsDate(df2.rows[k].date)
         /\ df2.rows[k].year = df2.rows[k].date[1]

\* C22 witness: a table whose first bar has no timestamp was normalized to
\* the row of its other bar.
C22_Witness ==
  /\ Normalized
  /\ df1.index[1] = NaT
  /\ Len(df1.index) = 2
  /\ Len(df2.rows) = 1
  /\ df2.rows[1].date = <<2024, 1, 2>>
  /\ df2.rows[1].year = 2024

C24_VolumeNonNegative ==
  Normalized =>
    \A k \in 1..Len(df2.rows) :
      /\ df2.rows[k].volume.k = "num"
      /\ ~ df2.rows[k].volume.half
      /\ df2.rows[k].volume.v >= 0

\* C24 amended: for raw volumes that are finite numbers, missing or not
\* numbers, normalize_yf returns, and every row it returns has a volume
\* that is an integer; it is 0 when the raw volume is missing or not a
\* number, and it is not negative unless the raw volume is a negative
\* number.
C24_VolumeInteger ==
  /\ ~ RaisedOnCells
  /\ Normalized =>
       \A k \in 1..Len(df2.rows) :
         /\ df2.rows[k].volume.k = "num"
         /\ ~ df2.rows[k].volume.half
         /\ SourceCell(k, "volume").k # "num" => df2.rows[k].volume = Num(0)
         /\ (SourceCell(k, "volume").k # "num"
               \/ SourceCell(k, "volume").v >= 0)
              => df2.rows[k].volume.v >= 0

\* C24 witness: a bar with no volume, or with a volume that has a
\* fraction, was normalized to a row with a whole volume.
C24_Witness ==
  /\ Normalized
  /\ \E k \in 1..Len(df2.rows) :
       /\ \/ SourceCell(k, "volume").k = "nan"
          \/ SourceCell(k, "volume").half /\ SourceCell(k, "volume").v > 0
       /\ df2.rows[k].volume.k = "num"
       /\ ~ df2.rows[k].volume.half

\* C25: when upsert_price_last_dates writes a record for a (ticker, date)
\* that is already stored, the one record stored for it afterwards holds
\* the six values of the new row: a null of the new row replaces a stored
\* value, and no value of the old record is kept.
C25_LastWriteWins ==
  (/\ ret.op = "upsert_price_last_dates"
   /\ ~ ret.raised
   /\ ret.value # None)
    => \E r \in ret.inset :
         /\ r.ticker = ret.key
         /\ r.date = ret.value
         /\ {x \in last_dates : x.ticker = ret.key /\ x.date = ret.value}
              = {PriceRecord(r)}
         /\ \A f \in ValueFields : PriceRecord(r)[f] = r[f]

\* C25 witness: a record with every value was stored for the (ticker,
\* date) written, and the record stored now has the nulls of the new row.
C25_Witness ==
  /\ ret.op = "upsert_price_last_dates"
  /\ ~ ret.raised
  /\ \E o \in ret.old : \A f \in ValueFields : notna(o[f])
  /\ \E x \in last_dates :
       /\ x.ticker = ret.key
       /\ x.date = ret.value
       /\ x.low = NaN
       /\ x.volume = NaN
       /\ x.open = Num(2)

\* What the get operations of the three tables return, for every key.
FeatureReads(tbl) ==
  [k \in Features \X Tickers |-> get_last_feature_date(tbl, k[1], k[2])]

FredReads(tbl) == [z \in Zones |-> get_last_fred_date(tbl, z)]

ParsedDates(rows, t) ==
  {strftime(r.date) : r \in {q \in rows : q.ticker = t /\ q.date # NaT}}

\* C27: after upsert_feature_last_dates(feature, df) of a table with the
\* columns ticker and date, get_last_feature_date(feature, t) is the
\* greatest parseable date of the rows of t in df for every ticker t that
\* has such a row, whether the stored date was earlier or later; every
\* other (feature, ticker) keeps its date; and
\* get_all_last_feature_dates(feature) maps each ticker that has a date to
\* what get_last_feature_date returns for it.
C27_FeatureCheckpoint ==
  [][(/\ nups' = nups + 1
      /\ ret'.op = "upsert_feature_last_dates"
      /\ ~ ret'.raised
      /\ {"ticker", "date"} \subseteq ret'.incols)
       => \A f \in Features :
            /\ \A t \in Tickers :
                 get_last_feature_date(feature_last_dates', f, t)
                   = IF f = ret'.feature /\ ParsedDates(ret'.inset, t) # {}
                     THEN MaxDate(ParsedDates(ret'.inset, t))
                     ELSE get_last_feature_date(feature_last_dates, f, t)
            /\ get_all_last_feature_dates(feature_last_dates', f)
                 = {<<t, get_last_feature_date(feature_last_dates', f, t)>> :
                      t \in {u \in Tickers :
                               get_last_feature_date(
                                 feature_last_dates', f, u) # None}}]_vars

\* C27 witness: a table of two rows of one ticker, one of them with a date
\* that does not parse, was upserted while a later date was stored, and
\* the stored date is now the earlier date of the table.
C27_Witness ==
  /\ ret.op = "upsert_feature_last_dates"
  /\ ~ ret.raised
  /\ {"ticker", "date"} \subseteq ret.incols
  /\ Cardinality(ret.inset) = 2
  /\ \E t \in Tickers :
       /\ \A r \in ret.inset : r.ticker = t
       /\ \E r \in ret.inset : r.date = NaT
       /\ get_last_feature_date(feature_last_dates, ret.feature, t)
            = MaxDate(ParsedDates(ret.inset, t))
       /\ DateLT(MaxDate(ParsedDates(ret.inset, t)), ret.before)

\* C28: the rows normalize_yf returns for one ticker in main() have
\* pairwise distinct (ticker, date): no two rows of one fetch share a date.
C28_DistinctDates ==
  \A a, b \in 1..Len(df2.rows) :
    (/\ df2.rows[a].ticker = df2.rows[b].ticker
     /\ df2.rows[a].date = df2.rows[b].date) => a = b

\* C29: under calls of upsert_price_last_dates made directly on the store,
\* in any order of dates, the date get_last_price_date returns for a ticker
\* never becomes earlier: every (ticker, date) stored stays stored, and the
\* read takes the greatest date of the ticker.
C29_StoreMonotonic ==
  [][nups' = nups + 1 =>
       /\ \A x \in last_dates :
            \E y \in last_dates' : y.ticker = x.ticker /\ y.date = x.date
       /\ \A t \in Tickers :
            /\ DateLE(get_last_price_date(last_dates, t),
                      get_last_price_date(last_dates', t))
            /\ get_last_price_date(last_dates', t)
                 = MaxDate({x.date : x \in {y \in last_dates' :
                                              y.ticker = t}})]_vars

\* C29 witness: rows all dated before the checkpoint of their ticker were
\* upserted, and the checkpoint is the date it was.
C29_Witness ==
  /\ ret.op = "upsert_price_last_dates"
  /\ ~ ret.raised
  /\ ret.indates # {}
  /\ \A d \in ret.indates : DateLT(d, ret.before)
  /\ get_last_price_date(last_dates, ret.key) = ret.before
  /\ \E x \in last_dates : x.ticker = ret.key /\ x.date = ret.value

====
